---- MODULE Spec2Model ----
(***************************************************************************)
(* Static analysis of a simply supported beam (engineering_3.0.py).        *)
(*                                                                         *)
(* The program reads a beam length, point loads, distributed loads and     *)
(* support positions, solves the two reactions, samples the shear and      *)
(* moment diagrams and optionally answers one point query.                 *)
(*                                                                         *)
(* Numbers.  The program computes in floating point and integrates with    *)
(* scipy's quad.  The model computes in exact rational arithmetic: a       *)
(* number is a pair <<n, d>> in lowest terms with d > 0, load intensities  *)
(* are polynomials in x, and quad is the exact definite integral.          *)
(***************************************************************************)
EXTENDS Integers, Sequences, FiniteSets

VARIABLES
    pc,           \* position of main()
    L,            \* beam length
    point_loads,  \* list of (x, F)
    dist_loads,   \* list of DistributedLoad objects
    supports,     \* list of support positions
    reactions,    \* [(0, R1), (L, R2)] once solved
    x_vals,       \* sample positions returned by calculate_diagrams
    shear,        \* main's variable shear: the sampled array, then the queried value
    moment,       \* main's variable moment: the sampled array, then the queried value
    x,            \* the queried position
    error         \* the exception that ended the run, if any

vars == <<pc, L, point_loads, dist_loads, supports, reactions,
          x_vals, shear, moment, x, error>>

(***************************************************************************)
(* Bounds of the model.                                                    *)
(***************************************************************************)
\* main() reads at most this many records in one run: n_points + n_dist +
\* n_supports <= MaxRecords.  The counts themselves are not stored: a loop
\* of main ends when a later step is taken.
MaxRecords == 3
\* Number of points of the sampling grid.  The source samples 1000 points
\* (np.linspace(0, L, 1000)); the model samples a grid of this size.
NumSamples == 4

(***************************************************************************)
(* Exact rational arithmetic.                                              *)
(***************************************************************************)
Abs(i) == IF i < 0 THEN -i ELSE i

RECURSIVE GCD(_, _)
GCD(a, b) == IF b = 0 THEN a ELSE GCD(b, a % b)

\* The rational n/d (d # 0) in lowest terms with a positive denominator.
Norm(n, d) ==
    LET g == GCD(Abs(n), Abs(d))
        s == IF d < 0 THEN -1 ELSE 1
    IN  <<(s * n) \div g, (s * d) \div g>>

Q(i) == <<i, 1>>
Zero == Q(0)

RAdd(a, b) == Norm(a[1] * b[2] + b[1] * a[2], a[2] * b[2])
RNeg(a) == <<-a[1], a[2]>>
RSub(a, b) == RAdd(a, RNeg(b))
RMul(a, b) == Norm(a[1] * b[1], a[2] * b[2])
\* a / b for b # 0
RDiv(a, b) == Norm(a[1] * b[2], a[2] * b[1])
RLeq(a, b) == a[1] * b[2] <= b[1] * a[2]
RLt(a, b) == a[1] * b[2] < b[1] * a[2]
RMax(a, b) == IF RLt(a, b) THEN b ELSE a
RMin(a, b) == IF RLt(b, a) THEN b ELSE a

RECURSIVE RPow(_, _)
RPow(a, k) == IF k = 0 THEN Q(1) ELSE RMul(a, RPow(a, k - 1))

\* Python's sum() of a list of numbers.
(***************************************************************************)
(* Load intensities and integration.                                       *)
(*                                                                         *)
(* A polynomial is the sequence of its coefficients, constant term first.  *)
(***************************************************************************)
\* The callable lambda x: eval(func_str) for a polynomial func_str, given
\* by its integer coefficients.
func(func_str) == [k \in 1..Len(func_str) |-> Q(func_str[k])]

\* lambda x: x * f(x)
XTimes(p) == <<Zero>> \o p

\* lambda xi: (xq - xi) * f(xi)
LeverTimes(xq, p) ==
    [k \in 1..(Len(p) + 1) |->
        RSub(IF k <= Len(p) THEN RMul(xq, p[k]) ELSE Zero,
             IF k >= 2 THEN p[k - 1] ELSE Zero)]

\* quad(p, a, b)[0]: the definite integral of p from a to b.
RECURSIVE quadFrom(_, _, _, _)
quadFrom(p, a, b, k) ==
    IF k > Len(p) THEN Zero
    ELSE RAdd(RMul(RDiv(p[k], Q(k)), RSub(RPow(b, k), RPow(a, k))),
              quadFrom(p, a, b, k + 1))

quad(p, a, b) == quadFrom(p, a, b, 1)

(***************************************************************************)
(* class DistributedLoad                                                   *)
(***************************************************************************)
total_forceOf(func_str, start, end) == quad(func(func_str), start, end)

\* The division of __init__'s last line raises ZeroDivisionError when the
\* total force is zero.
DistributedLoadRaises(func_str, start, end) ==
    total_forceOf(func_str, start, end) = Zero

\* The object built by DistributedLoad(func_str, start, end) when the
\* constructor returns.
DistributedLoad(func_str, start, end) ==
    [func_str    |-> func_str,
     start       |-> start,
     end         |-> end,
     total_force |-> total_forceOf(func_str, start, end),
     centroid    |-> RDiv(quad(XTimes(func(func_str)), start, end),
                          total_forceOf(func_str, start, end))]

(***************************************************************************)
(* calculate_internal_forces                                               *)
(***************************************************************************)
\* sum(F for xf, F in loads if xf <= xq), over loads[k..]
RECURSIVE PointShearFrom(_, _, _)
PointShearFrom(loads, xq, k) ==
    IF k > Len(loads) THEN Zero
    ELSE RAdd(IF RLeq(loads[k][1], xq) THEN loads[k][2] ELSE Zero,
              PointShearFrom(loads, xq, k + 1))

\* The same sum with the strict comparison xf < xq.
RECURSIVE PointShearStrictFrom(_, _, _)
PointShearStrictFrom(loads, xq, k) ==
    IF k > Len(loads) THEN Zero
    ELSE RAdd(IF RLt(loads[k][1], xq) THEN loads[k][2] ELSE Zero,
              PointShearStrictFrom(loads, xq, k + 1))

PointShearStrict(loads, xq) == PointShearStrictFrom(loads, xq, 1)

PointShear(loads, xq) == PointShearFrom(loads, xq, 1)

\* sum(F * (xq - xf) for xf, F in loads if xf <= xq), over loads[k..]
RECURSIVE PointMomentFrom(_, _, _)
PointMomentFrom(loads, xq, k) ==
    IF k > Len(loads) THEN Zero
    ELSE RAdd(IF RLeq(loads[k][1], xq)
              THEN RMul(loads[k][2], RSub(xq, loads[k][1]))
              ELSE Zero,
              PointMomentFrom(loads, xq, k + 1))

PointMoment(loads, xq) == PointMomentFrom(loads, xq, 1)

\* The same pass with the lower limit not clipped at 0: a = dl.start.
DistTermNoClip(dl, xq) ==
    IF RLeq(dl.start, xq)
    THEN LET a == dl.start
             b == RMin(dl.end, xq)
         IN  IF RLt(a, b)
             THEN <<quad(func(dl.func_str), a, b),
                    quad(LeverTimes(xq, func(dl.func_str)), a, b)>>
             ELSE <<Zero, Zero>>
    ELSE <<Zero, Zero>>

\* What one pass of the loop "for dl in dist_loads" adds to (shear, moment).
DistTerm(dl, xq) ==
    IF RLeq(dl.start, xq)
    THEN LET a == RMax(dl.start, Zero)
             b == RMin(dl.end, xq)
         IN  IF RLt(a, b)
             THEN <<quad(func(dl.func_str), a, b),
                    quad(LeverTimes(xq, func(dl.func_str)), a, b)>>
             ELSE <<Zero, Zero>>
    ELSE <<Zero, Zero>>

\* What the loop "for dl in dist_loads" adds to (shear, moment), over dls[k..]
RECURSIVE DistFrom(_, _, _)
DistFrom(dls, xq, k) ==
    IF k > Len(dls) THEN <<Zero, Zero>>
    ELSE LET t == DistTerm(dls[k], xq)
             r == DistFrom(dls, xq, k + 1)
         IN  <<RAdd(t[1], r[1]), RAdd(t[2], r[2])>>

\* Returns <<shear, moment>>.
calculate_internal_forces(xq, Lb, pl, dls, re) ==
    LET d == DistFrom(dls, xq, 1)
    IN  <<RAdd(PointShear(pl \o re, xq), d[1]),
          RAdd(PointMoment(pl \o re, xq), d[2])>>

(***************************************************************************)
(* calculate_diagrams                                                      *)
(***************************************************************************)
\* np.linspace(0, Lb, n, endpoint=False): the step is Lb / n.
linspaceNoEndpoint(Lb, n) == [i \in 1..n |-> RDiv(RMul(Q(i - 1), Lb), Q(n))]

\* np.linspace(0, Lb, n): n points from 0 to Lb inclusive.
linspace(Lb, n) == [i \in 1..n |-> RDiv(RMul(Q(i - 1), Lb), Q(n - 1))]

\* A sample that skips the loop over the distributed loads.
SampleAtPointOnly(xi, all_loads, dls) ==
    <<PointShear(all_loads, xi), PointMoment(all_loads, xi)>>

\* Sample i of the loop "for i, x in enumerate(x_vals)": <<shear[i], moment[i]>>.
SampleAt(xi, all_loads, dls) ==
    LET d == DistFrom(dls, xi, 1)
    IN  <<RAdd(PointShear(all_loads, xi), d[1]),
          RAdd(PointMoment(all_loads, xi), d[2])>>

\* Returns <<x_vals, shear, moment>>.
calculate_diagrams(Lb, pl, dls, re) ==
    LET xs == linspace(Lb, NumSamples)
        all_loads == pl \o re
        sm == [i \in 1..NumSamples |-> SampleAt(xs[i], all_loads, dls)]
    IN  <<xs,
          [i \in 1..NumSamples |-> sm[i][1]],
          [i \in 1..NumSamples |-> sm[i][2]]>>

(***************************************************************************)
(* main: the reaction solve                                                *)
(***************************************************************************)
\* sum(F for _, F in point_loads), over pl[k..]
RECURSIVE SumForces(_, _)
SumForces(pl, k) ==
    IF k > Len(pl) THEN Zero ELSE RAdd(pl[k][2], SumForces(pl, k + 1))

\* sum(dl.total_force for dl in dist_loads), over dls[k..]
RECURSIVE SumTotalForces(_, _)
SumTotalForces(dls, k) ==
    IF k > Len(dls) THEN Zero
    ELSE RAdd(dls[k].total_force, SumTotalForces(dls, k + 1))

\* sum(F * x for x, F in point_loads), over pl[k..]
RECURSIVE SumMoments(_, _)
SumMoments(pl, k) ==
    IF k > Len(pl) THEN Zero
    ELSE RAdd(RMul(pl[k][2], pl[k][1]), SumMoments(pl, k + 1))

\* sum(dl.total_force * dl.centroid for dl in dist_loads), over dls[k..]
RECURSIVE SumTotalMoments(_, _)
SumTotalMoments(dls, k) ==
    IF k > Len(dls) THEN Zero
    ELSE RAdd(RMul(dls[k].total_force, dls[k].centroid),
              SumTotalMoments(dls, k + 1))

sum_F(pl, dls) == RAdd(SumForces(pl, 1), SumTotalForces(dls, 1))

sum_M(pl, dls) == RAdd(SumMoments(pl, 1), SumTotalMoments(dls, 1))

\* R2 with the sign of the moment sum lost: R2 = sum_M / L
R2OfWrongSign(Lb, pl, dls) == RDiv(sum_M(pl, dls), Lb)

\* R2 = -sum_M / L   (L # 0)
R2Of(Lb, pl, dls) == RDiv(RNeg(sum_M(pl, dls)), Lb)

\* R1 with R2 added instead of subtracted: R1 = -sum_F + R2
R1OfPlus(Lb, pl, dls) == RAdd(RNeg(sum_F(pl, dls)), R2Of(Lb, pl, dls))

\* R1 = -sum_F - R2
R1Of(Lb, pl, dls) == RSub(RNeg(sum_F(pl, dls)), R2Of(Lb, pl, dls))

\* reactions = [(0, R1), (L, R2)]
reactionsOf(Lb, pl, dls) ==
    <<  <<Zero, R1Of(Lb, pl, dls)>>, <<Lb, R2Of(Lb, pl, dls)>>  >>

(***************************************************************************)
(* The values the user may enter.                                          *)
(***************************************************************************)
\* Nothing validates an entry: a length may be zero or negative, and a
\* position may lie off the beam (Lb + 1, a start of -1, a query at -1).
BeamLengths == {-1, 0, 3}
PointPositions(Lb) == {p \in {0, 1, Lb + 1} : p <= Lb + 1}
PointForces == {-2, 1}
\* '0', '2', 'x', 'x-1'
FuncStrs == {<<0>>, <<2>>, <<0, 1>>, <<-1, 1>>}
DistIntervals(Lb) == {iv \in {<<-1, 2>>, <<0, 2>>, <<1, 1>>} : iv[2] <= Lb}
SupportPositions(Lb) == {p \in {0, 1, Lb} : 0 <= p /\ p <= Lb}
QueryPositions(Lb) == (-1)..(Lb + 1)

None == <<>>
NoError == [kind |-> "none", in |-> "none"]

Records == Len(point_loads) + Len(dist_loads) + Len(supports)

(***************************************************************************)
(* main                                                                    *)
(***************************************************************************)
Init ==
    /\ pc = "length"
    /\ L = None
    /\ point_loads = <<>>
    /\ dist_loads = <<>>
    /\ supports = <<>>
    /\ reactions = None
    /\ x_vals = None
    /\ shear = None
    /\ moment = None
    /\ x = None
    /\ error = NoError

\* L = float(input("Enter beam length (m): "))
ReadLength ==
    /\ pc = "length"
    /\ \E v \in BeamLengths : L' = Q(v)
    /\ pc' = "point_loads"
    /\ UNCHANGED <<point_loads, dist_loads, supports, reactions,
                   x_vals, shear, moment, x, error>>

\* One pass of the loop that reads the point loads.
ReadPointLoad ==
    /\ pc = "point_loads"
    /\ Records < MaxRecords
    /\ \E p \in PointPositions(L[1]), F \in PointForces :
           point_loads' = Append(point_loads, <<Q(p), Q(F)>>)
    /\ UNCHANGED <<pc, L, dist_loads, supports, reactions,
                   x_vals, shear, moment, x, error>>

\* One pass of the loop that reads the distributed loads; the passes of the
\* point-load loop are over.
ReadDistLoad ==
    /\ pc \in {"point_loads", "dist_loads"}
    /\ Records < MaxRecords
    /\ \E f \in FuncStrs, iv \in DistIntervals(L[1]) :
           IF DistributedLoadRaises(f, Q(iv[1]), Q(iv[2]))
           THEN /\ pc' = "aborted"
                /\ error' = [kind |-> "ZeroDivisionError",
                             in |-> "DistributedLoad.__init__"]
                /\ UNCHANGED dist_loads
           ELSE /\ pc' = "dist_loads"
                /\ dist_loads' =
                       Append(dist_loads, DistributedLoad(f, Q(iv[1]), Q(iv[2])))
                /\ UNCHANGED error
    /\ UNCHANGED <<L, point_loads, supports, reactions,
                   x_vals, shear, moment, x>>

\* One pass of the loop that reads the supports.
ReadSupport ==
    /\ pc \in {"point_loads", "dist_loads", "supports"}
    /\ Records < MaxRecords
    /\ \E p \in SupportPositions(L[1]) : supports' = Append(supports, Q(p))
    /\ pc' = "supports"
    /\ UNCHANGED <<L, point_loads, dist_loads, reactions,
                   x_vals, shear, moment, x, error>>

\* "Calculate reactions": the input loops are over.
Solve ==
    /\ pc \in {"point_loads", "dist_loads", "supports"}
    /\ IF L = Zero
       THEN /\ pc' = "aborted"
            /\ error' = [kind |-> "ZeroDivisionError", in |-> "main"]
            /\ UNCHANGED reactions
       ELSE /\ pc' = "solved"
            /\ reactions' = reactionsOf(L, point_loads, dist_loads)
            /\ UNCHANGED error
    /\ UNCHANGED <<L, point_loads, dist_loads, supports,
                   x_vals, shear, moment, x>>

\* x_vals, shear, moment = calculate_diagrams(L, point_loads, dist_loads, reactions)
Diagrams ==
    /\ pc = "solved"
    /\ \E d \in {calculate_diagrams(L, point_loads, dist_loads, reactions)} :
           /\ x_vals' = d[1]
           /\ shear' = d[2]
           /\ moment' = d[3]
    /\ pc' = "sampled"
    /\ UNCHANGED <<L, point_loads, dist_loads, supports, reactions, x, error>>

\* The user answers 'yes' and enters a position.
Query ==
    /\ pc = "sampled"
    /\ \E v \in QueryPositions(L[1]) :
           \E r \in {calculate_internal_forces(Q(v), L, point_loads, dist_loads, reactions)} :
               /\ x' = Q(v)
               /\ shear' = r[1]
               /\ moment' = r[2]
    /\ pc' = "queried"
    /\ UNCHANGED <<L, point_loads, dist_loads, supports, reactions, x_vals, error>>

\* The user answers anything else.
NoQuery ==
    /\ pc = "sampled"
    /\ pc' = "done"
    /\ UNCHANGED <<L, point_loads, dist_loads, supports, reactions,
                   x_vals, shear, moment, x, error>>

Next ==
    \/ ReadLength
    \/ ReadPointLoad
    \/ ReadDistLoad
    \/ ReadSupport
    \/ Solve
    \/ Diagrams
    \/ Query
    \/ NoQuery

Spec == Init /\ [][Next]_vars

(***************************************************************************)
(* Properties.                                                             *)
(***************************************************************************)
Solved == pc \in {"solved", "sampled", "queried", "done"}
\* main's shear and moment hold the sampled arrays
Sampled == pc \in {"sampled", "done"}
R1 == reactions[1][2]
R2 == reactions[2][2]
AllLoads == point_loads \o reactions

\* C1.  Force balance: once the reactions are solved, R1 + R2 plus the sum
\* of the point-load magnitudes plus the sum of the total forces of the
\* distributed loads is exactly zero, whatever loads were entered.
C1_ForceBalance ==
    Solved =>
        RAdd(RAdd(R1, R2),
             RAdd(SumForces(point_loads, 1), SumTotalForces(dist_loads, 1))) = Zero

C1_Witness ==
    /\ Solved
    /\ Len(supports) = 2
    /\ Len(dist_loads) = 1
    /\ R1 # Zero
    /\ R2 # Zero

\* C2.  Moment balance about the first support, as claimed: for two
\* supports x1 < x2 within [0, L] the reactions sit at x1 and x2,
\* R2*(x2 - x1) + sum F*(x_point - x1) + sum total_force*(centroid - x1) = 0
\* and R1 = -(sum of forces) - R2.
RECURSIVE MomentsAbout(_, _, _)
MomentsAbout(pl, x1, k) ==
    IF k > Len(pl) THEN Zero
    ELSE RAdd(RMul(pl[k][2], RSub(pl[k][1], x1)), MomentsAbout(pl, x1, k + 1))

RECURSIVE TotalMomentsAbout(_, _, _)
TotalMomentsAbout(dls, x1, k) ==
    IF k > Len(dls) THEN Zero
    ELSE RAdd(RMul(dls[k].total_force, RSub(dls[k].centroid, x1)),
              TotalMomentsAbout(dls, x1, k + 1))

C2_MomentBalanceAtSupports ==
    (Solved /\ Len(supports) = 2 /\ RLt(supports[1], supports[2])) =>
        LET x1 == supports[1]
            x2 == supports[2]
        IN  /\ reactions[1][1] = x1
            /\ reactions[2][1] = x2
            /\ RAdd(RMul(R2, RSub(x2, x1)),
                    RAdd(MomentsAbout(point_loads, x1, 1),
                         TotalMomentsAbout(dist_loads, x1, 1))) = Zero
            /\ R1 = RSub(RNeg(sum_F(point_loads, dist_loads)), R2)

\* C3.  Right-inclusive convention: a load at the queried position is
\* already counted.  If xl < x, no point load or reaction lies strictly
\* between xl and x and no distributed load acts between them, then
\* shear(x) - shear(xl) is the sum of the magnitudes of the loads located
\* at x, and moment(x) - moment(xl) = shear(xl) * (x - xl).
RECURSIVE SumAt(_, _, _)
SumAt(loads, p, k) ==
    IF k > Len(loads) THEN Zero
    ELSE RAdd(IF loads[k][1] = p THEN loads[k][2] ELSE Zero, SumAt(loads, p, k + 1))

NoLoadBetween(xl, xr) ==
    \A k \in 1..Len(AllLoads) :
        ~(RLt(xl, AllLoads[k][1]) /\ RLt(AllLoads[k][1], xr))

NoDistBetween(xl, xr) ==
    \A k \in 1..Len(dist_loads) :
        \/ RLeq(dist_loads[k].end, xl)
        \/ RLeq(xr, RMax(dist_loads[k].start, Zero))

JustLeft(xl, xr) == RLt(xl, xr) /\ NoLoadBetween(xl, xr) /\ NoDistBetween(xl, xr)

C3_RightInclusive ==
    pc = "queried" =>
        \A v \in QueryPositions(L[1]) :
            JustLeft(Q(v), x) =>
                LET left == calculate_internal_forces(Q(v), L, point_loads,
                                                      dist_loads, reactions)
                IN  /\ RSub(shear, left[1]) = SumAt(AllLoads, x, 1)
                    /\ RSub(moment, left[2]) = RMul(left[1], RSub(x, Q(v)))

C3_Witness ==
    /\ pc = "queried"
    /\ \E k \in 1..Len(point_loads) : point_loads[k][1] = x
    /\ RLt(Zero, x)
    /\ SumAt(AllLoads, x, 1) # Zero
    /\ \E v \in QueryPositions(L[1]) : JustLeft(Q(v), x)

\* C4.  Distributed-load inclusion rule: at the queried position x a
\* distributed load with start >= x adds nothing; one with
\* 0 <= start <= end <= x adds its total_force to the shear (and
\* total_force * (x - centroid) to the moment); any other adds the integral
\* of its intensity (of (x - xi) * intensity for the moment) over
\* [max(start, 0), min(end, x)] when that interval is non-empty, and
\* nothing otherwise.
ExpectedDist(dl, xq) ==
    IF RLeq(xq, dl.start) THEN <<Zero, Zero>>
    ELSE IF RLeq(Zero, dl.start) /\ RLeq(dl.start, dl.end) /\ RLeq(dl.end, xq)
    THEN <<dl.total_force, RMul(dl.total_force, RSub(xq, dl.centroid))>>
    ELSE LET a == RMax(dl.start, Zero)
             b == RMin(dl.end, xq)
         IN  IF RLt(a, b)
             THEN <<quad(func(dl.func_str), a, b),
                    quad(LeverTimes(xq, func(dl.func_str)), a, b)>>
             ELSE <<Zero, Zero>>

RECURSIVE ExpectedDistFrom(_, _, _)
ExpectedDistFrom(dls, xq, k) ==
    IF k > Len(dls) THEN <<Zero, Zero>>
    ELSE LET t == ExpectedDist(dls[k], xq)
             r == ExpectedDistFrom(dls, xq, k + 1)
         IN  <<RAdd(t[1], r[1]), RAdd(t[2], r[2])>>

C4_DistInclusion ==
    pc = "queried" =>
        LET e == ExpectedDistFrom(dist_loads, x, 1)
        IN  /\ shear = RAdd(PointShear(AllLoads, x), e[1])
            /\ moment = RAdd(PointMoment(AllLoads, x), e[2])

C4_Witness ==
    /\ pc = "queried"
    /\ \E k \in 1..Len(dist_loads) :
           /\ RLt(dist_loads[k].start, Zero)
           /\ RLt(Zero, x)
           /\ RLt(x, dist_loads[k].end)
           /\ DistTerm(dist_loads[k], x)[1] # Zero

\* C5.  A point query at x < 0 or x > L fails with OutOfRangeError and
\* yields no shear/moment value.
C5_OutOfRangeRejected ==
    (x # None /\ (RLt(x, Zero) \/ RLt(L, x))) =>
        /\ error.kind = "OutOfRangeError"
        /\ pc # "queried"

\* C6.  On a beam of positive length the reaction solve fails with
\* UnsolvableSystemError and produces no reactions whenever the number of
\* supports is not 2 or the two supports coincide.
SolveRan == Solved \/ (pc = "aborted" /\ error.in = "main")
PositiveLength == L # None /\ RLt(Zero, L)
BadSupports == Len(supports) # 2 \/ supports[1] = supports[2]

C6_UnsolvableRejected ==
    (SolveRan /\ PositiveLength /\ BadSupports) =>
        /\ error.kind = "UnsolvableSystemError"
        /\ reactions = None

\* C7.  Constructing a DistributedLoad whose total force is zero ends in
\* DegenerateLoadError, never in another error kind, and never in a load
\* object with an undefined centroid.
C7_DegenerateLoadError ==
    /\ \A k \in 1..Len(dist_loads) : dist_loads[k].total_force # Zero
    /\ (pc = "aborted" /\ error.in = "DistributedLoad.__init__") =>
           error.kind = "DegenerateLoadError"

LoadsWithin ==
    /\ \A k \in 1..Len(point_loads) :
           RLeq(Zero, point_loads[k][1]) /\ RLeq(point_loads[k][1], L)
    /\ \A k \in 1..Len(dist_loads) :
           /\ RLeq(Zero, dist_loads[k].start)
           /\ RLt(dist_loads[k].start, dist_loads[k].end)
           /\ RLeq(dist_loads[k].end, L)

NoPointLoadAtZero == \A k \in 1..Len(point_loads) : point_loads[k][1] # Zero

C9_Closure ==
    /\ (Sampled /\ LoadsWithin) =>
           /\ shear[NumSamples] = Zero
           /\ moment[NumSamples] = Zero
           /\ moment[1] = Zero
           /\ NoPointLoadAtZero => shear[1] = R1
    /\ (pc = "queried" /\ LoadsWithin /\ x = L) =>
           shear = Zero /\ moment = Zero
    /\ (pc = "queried" /\ LoadsWithin /\ x = Zero) =>
           /\ moment = Zero
           /\ NoPointLoadAtZero => shear = R1

C9_Witness ==
    /\ pc = "queried"
    /\ LoadsWithin
    /\ x = L
    /\ point_loads # <<>>
    /\ dist_loads # <<>>
    /\ R1 # Zero

\* C10.  The sampler and the point query agree: sample i of
\* calculate_diagrams is the pair calculate_internal_forces returns at
\* x_vals[i], and neither call changes point_loads, dist_loads or
\* reactions.
C10_SamplerAgrees ==
    [][/\ (pc = "solved" /\ pc' = "sampled") =>
              /\ \A i \in 1..NumSamples :
                     <<shear'[i], moment'[i]>> =
                         calculate_internal_forces(x_vals'[i], L, point_loads,
                                                   dist_loads, reactions)
              /\ UNCHANGED <<point_loads, dist_loads, reactions>>
       /\ (pc = "sampled" /\ pc' = "queried") =>
              UNCHANGED <<point_loads, dist_loads, reactions>>]_vars

C10_Witness ==
    /\ pc = "sampled"
    /\ point_loads # <<>>
    /\ dist_loads # <<>>
    /\ \E i \in 2..(NumSamples - 1) : shear[i] # Zero /\ moment[i] # Zero

====
